---- MODULE Spec2Model ----
(***************************************************************************)
(* RCS Zetta station collector (scripts/rcs_zetta.py).                     *)
(*                                                                         *)
(* Python values are encoded as follows.                                   *)
(*   dict (JSON object)  : a function whose DOMAIN is the set of keys that *)
(*                         are present; a key that is absent is not in the *)
(*                         DOMAIN, {} is the function with empty DOMAIN.   *)
(*   ordered dict        : [keys |-> sequence of keys in insertion order,  *)
(*                          val |-> function from the keys to the values]  *)
(*                         (station_store, collection, org_dict, whose     *)
(*                         iteration order the code relies on).            *)
(*   list / tuple        : a sequence.                                     *)
(*   str                 : a string; None in a str position is "None".     *)
(*   None in the position of a StationStatus is NoStatus.                  *)
(***************************************************************************)
EXTENDS Integers, Sequences, FiniteSets, TLC

\* ---------------------------------------------------------------- bounds
\* largest roster the backend returns
MaxStations == 26
\* number of collect() calls made on one collector
MaxCycles == 2
\* largest of the small rosters, which are tried with every option of the
\* constructor, every organization list and every backend
MaxSmallRoster == 3

\* ------------------------------------------------------- program constants
POLLNG_GROUPS == 25

DefaultHost == "127.0.0.1"

\* ------------------------------------------------------------ Python values
None == "None"

NoStatus == [None |-> TRUE]

\* d.get(k): the value under k, None when k is absent
Get(d, k) == IF k \in DOMAIN d THEN d[k] ELSE None

EmptyDict == [keys |-> <<>>, val |-> <<>>]

\* d.update({k: v}): a new key goes last, an existing key keeps its place
DictUpdate(d, k, v) ==
  [keys |-> IF k \in DOMAIN d.val THEN d.keys ELSE Append(d.keys, k),
   val  |-> (k :> v) @@ d.val]

DictKeys(d) == {d.keys[i] : i \in 1..Len(d.keys)}

\* truth value of a str-or-None: None and "" are false
Falsy(s) == s = None \/ s = ""

\* ------------------------------------------------------------ backend data
\* The identifier of the i-th station of the backend.
Uuid(i) == "u" \o ToString(i)

StationIndex(uuid) == CHOOSE i \in 1..MaxStations : Uuid(i) = uuid

\* uuid names a station of the backend.
KnownStation(uuid) == \E i \in 1..MaxStations : Uuid(i) = uuid

\* A roster record as the backend sends it (class Station, without "groups").
StationRecord(i) ==
  [uuid |-> Uuid(i), name |-> "name-" \o ToString(i),
   callLetters |-> "CL" \o ToString(i), role |-> "station", internalId |-> i]

\* dict without the key k
Without(d, k) == [x \in (DOMAIN d) \ {k} |-> d[x]]

\* The rosters (the "dataObject" of /Station/list) the backend may hold:
\* the first n stations, for the small sizes and for the sizes from the
\* polling group size on, and small rosters with a record that repeats an
\* identifier, one that already carries "groups", one without "callLetters",
\* one without "uuid" in the middle and one without "name".
RosterSizes == (0..MaxSmallRoster) \cup {POLLNG_GROUPS, MaxStations}

Roster(n) == [i \in 1..n |-> StationRecord(i)]

OddRosters ==
  { <<StationRecord(1), StationRecord(2), [StationRecord(1) EXCEPT !.name = "renamed"]>>,
    <<("groups" :> <<"stale">>) @@ StationRecord(1), Without(StationRecord(2), "callLetters")>>,
    <<StationRecord(1), Without(StationRecord(2), "uuid"), StationRecord(3)>>,
    <<StationRecord(1), Without(StationRecord(2), "name")>> }

Rosters == {Roster(n) : n \in RosterSizes} \cup OddRosters

\* What a GET can produce: an exception of the transport or of the JSON parse
\* (requests raises inside .get(...).json()), or a parsed envelope in which
\* "responseType" and "dataObject" may each be missing.
Raised == [exception |-> "RequestException"]

Envelopes(data) ==
  { [responseType |-> "success", dataObject |-> data],
    [responseType |-> "error", dataObject |-> data],
    [dataObject |-> data],
    [responseType |-> "success"],
    Raised }

\* The answers to /Station/list: every roster under the success marker, and
\* one roster in each of the envelopes.
StationListResponses ==
  {[responseType |-> "success", dataObject |-> r] : r \in Rosters} \cup Envelopes(Roster(2))

\* The organizations (the "dataObject" of /Organization/list).
Org(name, members) == [uuid |-> "org-" \o name, name |-> name, stationUUIDCollection |-> members]

OrgLists ==
  { <<>>,
    <<Org("60s", <<Uuid(2)>>)>>,
    <<Org("60s", <<Uuid(2), Uuid(2)>>), Org("Rock", <<Uuid(1), Uuid(2), Uuid(POLLNG_GROUPS + 1)>>)>>,
    <<Org("60s", <<Uuid(1)>>), Org("Empty", <<>>),
      Without(Org("NoCol", <<>>), "stationUUIDCollection"), Org("60s", <<Uuid(2), "unknown">>)>>,
    <<Org("Rock", <<Uuid(1)>>), Without(Org("NoName", <<Uuid(1)>>), "name"), Org("60s", <<Uuid(1)>>)>> }

\* The answers to /Organization/list: every list under the success marker,
\* and one list in each of the envelopes.
OrganizationListResponses ==
  {[responseType |-> "success", dataObject |-> o] : o \in OrgLists}
    \cup Envelopes(<<Org("60s", <<Uuid(2)>>)>>)

\* ------------------------------------------------------------------- state
VARIABLES
  pc,             \* where the caller's thread is: "new", "exited", "ready",
                  \* "start", "join", "build", "returned", "raised"
  host,           \* self.host
  apikey,         \* self.apikey
  username,       \* self.username
  password,       \* self.password
  station_store,  \* self.station_store
  kwargs,         \* __init__: the options the constructor was called with
  organization_lists, \* __init__: organization_lists
  directory,      \* the station_store as it was when __init__ ended
  stations_answer,      \* __init__: what GET /Station/list produced
  organizations_answer, \* __init__: what GET /Organization/list produced
  requests,       \* GETs issued so far, counted per endpoint
  cycle,          \* collect() calls begun so far
  backend,        \* what /OnAir/Status/{uuid} answers during this cycle
  groups,         \* collect: groups
  collection,     \* collect: collection (shared with the workers)
  threads,        \* collect: threads, each with the state of its station_process
  idx,            \* collect: position of the start loop, then of the join loop
  documents,      \* collect: documents
  result,         \* what the last collect() handed to its caller
  previous,       \* the keys of the result map of the collect() before this one
  plugin          \* the Plugin object: whether it has its collector attribute,
                  \* the hosts of the last fetch() and of the fetch() that made
                  \* it, and how far the last fetch() got

vars == <<pc, host, apikey, username, password, station_store, kwargs,
          organization_lists, directory, stations_answer, organizations_answer,
          requests, cycle,
          backend, groups, collection, threads, idx, documents, result,
          previous, plugin>>

\* the collector and what its construction left behind
selfVars == <<host, apikey, username, password, station_store, kwargs,
              organization_lists, directory, stations_answer, organizations_answer>>

collectVars == <<backend, groups, collection, threads, idx, documents, result, previous>>

\* --------------------------------------------------------- Zetta.__init__
\* Options the caller may pass (ZettaParams). The constructor matches an
\* option by substring ('"host" in key'); among the keys of ZettaParams no
\* key contains another, so the match is equality of key and attribute name.
ParamValues(key) ==
  CASE key = "host"     -> {"", "zetta.example"}
    [] key = "apikey"   -> {"", "1234"}
    [] key = "username" -> {"", "admin"}
    [] key = "password" -> {"", "password"}

ParamKeys == {"host", "apikey", "username", "password"}

Kwargs ==
  UNION { {kw \in [S -> UNION {ParamValues(k) : k \in ParamKeys}] :
             \A k \in S : kw[k] \in ParamValues(k)} : S \in SUBSET ParamKeys }

\* The loop over kwargs.items(): the attribute takes the option's str() when
\* the option is given and that string is non-empty, and keeps its default
\* otherwise.
Setting(options, attr, default) ==
  IF attr \in DOMAIN options /\ options[attr] # "" THEN options[attr] ELSE default

\* 'and' in place of 'or': only a constructor without any credential exits.
AllParametersMissing(k, u, p) == k = "" /\ u = "" /\ p = ""

\* apikey == "" or username == "" or password == ""
MissingParameters(k, u, p) == k = "" \/ u = "" \/ p = ""

\* not resp.get("responseType") or resp["responseType"] != "success"
BadResponseType(resp) ==
  ~("responseType" \in DOMAIN resp) \/ resp["responseType"] = "" \/ resp["responseType"] # "success"

\* The for loop of collect_stations over resp["dataObject"], from record i on:
\* a record without "uuid" raises KeyError, which leaves the loop with the
\* records stored so far.
RECURSIVE StationLoop(_, _, _)
StationLoop(data, i, station_dict) ==
  IF i > Len(data) THEN station_dict
  ELSE IF ~("uuid" \in DOMAIN data[i]) THEN station_dict
  ELSE StationLoop(data, i + 1,
         DictUpdate(station_dict, data[i]["uuid"], ("groups" :> <<>>) @@ data[i]))

\* collect_stations: the directory built from the answer to /Station/list.
\* Every exception inside the try leaves station_dict as it is at that point.
collect_stations(resp) ==
  IF "exception" \in DOMAIN resp THEN EmptyDict
  ELSE IF BadResponseType(resp) THEN EmptyDict
  ELSE IF ~("dataObject" \in DOMAIN resp) THEN EmptyDict
  ELSE StationLoop(resp["dataObject"], 1, EmptyDict)

\* The for loop of collect_org_groups over resp["dataObject"]: an organization
\* enters the map when its "stationUUIDCollection" is present and non-empty;
\* its missing "name" raises KeyError and ends the loop.
RECURSIVE OrgLoop(_, _, _)
OrgLoop(data, i, org_dict) ==
  IF i > Len(data) THEN org_dict
  ELSE IF ~("stationUUIDCollection" \in DOMAIN data[i]) \/ data[i]["stationUUIDCollection"] = <<>>
       THEN OrgLoop(data, i + 1, org_dict)
  ELSE IF ~("name" \in DOMAIN data[i]) THEN org_dict
  ELSE OrgLoop(data, i + 1, DictUpdate(org_dict, data[i]["name"], data[i]["stationUUIDCollection"]))

collect_org_groups(resp) ==
  IF "exception" \in DOMAIN resp THEN EmptyDict
  ELSE IF BadResponseType(resp) THEN EmptyDict
  ELSE IF ~("dataObject" \in DOMAIN resp) THEN EmptyDict
  ELSE OrgLoop(resp["dataObject"], 1, EmptyDict)

\* x in station_list
InList(x, list) == \E i \in 1..Len(list) : list[i] = x

\* The membership test made on the station's name in place of its uuid.
RECURSIVE AppendGroupsByName(_, _, _)
AppendGroupsByName(station, org_dict, j) ==
  IF j > Len(org_dict.keys) THEN station
  ELSE LET name == org_dict.keys[j]
           station_list == org_dict.val[name]
       IN AppendGroupsByName(
            IF InList(Get(station, "name"), station_list)
              THEN [station EXCEPT !["groups"] = Append(@, name)]
              ELSE station,
            org_dict, j + 1)

\* The inner loop of __init__ for one station, from organization j on:
\* station["groups"].append(name) for each organization that lists the station.
RECURSIVE AppendGroups(_, _, _)
AppendGroups(station, org_dict, j) ==
  IF j > Len(org_dict.keys) THEN station
  ELSE LET name == org_dict.keys[j]
           station_list == org_dict.val[name]
       IN AppendGroups(
            IF InList(station["uuid"], station_list)
              THEN [station EXCEPT !["groups"] = Append(@, name)]
              ELSE station,
            org_dict, j + 1)

\* The outer loop of __init__ over self.station_store.items().
AssignGroups(store, org_dict) ==
  [keys |-> store.keys,
   val  |-> [k \in DOMAIN store.val |-> AppendGroups(store.val[k], org_dict, 1)]]

NoRequests == [stations |-> 0, organizations |-> 0, status |-> 0]

\* Zetta(**kwargs) with the two answers the backend gives during construction.
\* sys.exit() leaves the caller without a collector; otherwise the two lists
\* are fetched in one session and the directory is assembled.
Zetta_init(options, stationResp, orgResp) ==
  /\ kwargs' = options
  /\ LET k == Setting(options, "apikey", "")
         u == Setting(options, "username", "")
         p == Setting(options, "password", "")
         store == AssignGroups(collect_stations(stationResp), collect_org_groups(orgResp))
     IN IF MissingParameters(k, u, p)
          THEN /\ pc' = "exited"
               /\ UNCHANGED <<host, apikey, username, password, station_store,
                              organization_lists, directory, stations_answer,
                              organizations_answer, requests>>
          ELSE /\ pc' = "ready"
               /\ host' = Setting(options, "host", DefaultHost)
               /\ apikey' = k
               /\ username' = u
               /\ password' = p
               /\ organization_lists' = collect_org_groups(orgResp)
               /\ station_store' = store
               /\ directory' = store
               /\ stations_answer' = stationResp
               /\ organizations_answer' = orgResp
               /\ requests' = [requests EXCEPT !.stations = @ + 1, !.organizations = @ + 1]
  /\ UNCHANGED <<cycle>>
  /\ UNCHANGED collectVars

\* ------------------------------------------------- the on-air status endpoint
\* A playlist item of station uuid at play position n.
PlaylistItem(uuid, n) ==
  [artist |-> "artist-" \o ToString(n) \o "-" \o uuid, title |-> "title-" \o ToString(n) \o "-" \o uuid,
   assetType |-> "song", chainType |-> "music", statusCode |-> "status-" \o ToString(n)]

\* The "dataObject" of a status answer (class StationStatus).
Status(uuid, events) ==
  [mode |-> "auto", status |-> "onAir-" \o uuid, onAirStatusLogEvents |-> events]

\* The answers the endpoint can give for station uuid: a playing station, an
\* error marker, an empty playlist, an empty status object, an exception, a
\* status without playlist and mode, a success marker without data, and a
\* playlist of one item that has no artist.
StatusAnswers(uuid) ==
  << [responseType |-> "success",
      dataObject |-> Status(uuid, <<PlaylistItem(uuid, 1), PlaylistItem(uuid, 2)>>)],
     [responseType |-> "error", dataObject |-> Status(uuid, <<PlaylistItem(uuid, 1)>>)],
     [responseType |-> "success", dataObject |-> Status(uuid, <<>>)],
     [responseType |-> "success", dataObject |-> <<>>],
     Raised,
     [responseType |-> "success",
      dataObject |-> Without(Without(Status(uuid, <<>>), "onAirStatusLogEvents"), "mode")],
     [responseType |-> "success"],
     [responseType |-> "success",
      dataObject |-> Status(uuid, <<Without(PlaylistItem(uuid, 1), "artist")>>)] >>

NumAnswers == Len(StatusAnswers(Uuid(1)))

\* How the backend behaves during one cycle: every station gives answer
\* number k (uniform), or station i gives answer number ((i + k) mod
\* NumAnswers) + 1, so that neighbouring stations differ and every station
\* meets every answer for some k.
AllBackends == [uniform : BOOLEAN, k : 1..NumAnswers]

\* The mixed backend under which the first station of the second polling
\* group plays: (POLLNG_GROUPS + 1 + k) mod NumAnswers = 0.
MixedBackend ==
  [uniform |-> FALSE, k |-> NumAnswers - ((POLLNG_GROUPS + 1) % NumAnswers)]

\* A directory beyond the small rosters is polled against three backends:
\* all playing, all failing, and the mixed one.
Backends(store) ==
  IF Len(store.keys) <= MaxSmallRoster THEN AllBackends
  ELSE {[uniform |-> TRUE, k |-> 1], [uniform |-> TRUE, k |-> 2], MixedBackend}

\* The answer to GET /StationScheduleLog/OnAir/Status/{uuid} under backend b;
\* a uuid the backend does not know gets the error marker.
StatusResponse(b, uuid) ==
  IF ~KnownStation(uuid) THEN [responseType |-> "error"]
  ELSE StatusAnswers(uuid)[IF b.uniform THEN b.k ELSE ((StationIndex(uuid) + b.k) % NumAnswers) + 1]

\* ------------------------------------------------------- Zetta.collect
\* zip in place of zip_longest: a tuple the iterator cannot fill is dropped.
ZipShortest(keys) ==
  [g \in 1..(Len(keys) \div POLLNG_GROUPS) |->
     [j \in 1..POLLNG_GROUPS |-> keys[(g - 1) * POLLNG_GROUPS + j]]]

\* Tuples cut one position short: tuple g starts at the last key of tuple
\* g-1, so that key is in both.
ZipOverlapping(keys) ==
  [g \in 1..((Len(keys) + POLLNG_GROUPS - 1) \div POLLNG_GROUPS) |->
     [j \in 1..POLLNG_GROUPS |->
        IF (g - 1) * (POLLNG_GROUPS - 1) + j <= Len(keys)
          THEN keys[(g - 1) * (POLLNG_GROUPS - 1) + j] ELSE None]]

\* list(zip_longest(*[iter(keys)] * POLLNG_GROUPS)): the same iterator is read
\* POLLNG_GROUPS times per tuple, so tuple g holds the keys at positions
\* (g-1)*POLLNG_GROUPS+1 .. g*POLLNG_GROUPS, with None where the iterator ran
\* out; no tuple is produced once the iterator is empty at a tuple's start.
ZipGroups(keys) ==
  [g \in 1..((Len(keys) + POLLNG_GROUPS - 1) \div POLLNG_GROUPS) |->
     [j \in 1..POLLNG_GROUPS |->
        IF (g - 1) * POLLNG_GROUPS + j <= Len(keys)
          THEN keys[(g - 1) * POLLNG_GROUPS + j] ELSE None]]

\* collect_station_status: the value returned for one answer of the endpoint.
collect_station_status(resp) ==
  IF "exception" \in DOMAIN resp THEN NoStatus
  ELSE IF BadResponseType(resp) THEN NoStatus
  ELSE IF ~("dataObject" \in DOMAIN resp) THEN NoStatus
  ELSE resp["dataObject"]

\* 'if resp := ...': the truth value of a StationStatus-or-None; None and the
\* empty dict are false.
StatusTruthy(resp) == resp # NoStatus /\ DOMAIN resp # {}

\* The loop without 'if not uuid: continue': every position of the tuple is
\* taken, the padding included.
NextSlotNoSkip(stations, pos) == IF pos <= Len(stations) THEN pos ELSE 0

\* station_process: the first position at or after pos of the tuple that
\* holds a uuid the loop does not skip ('if not uuid: continue'), 0 if none.
NextSlot(stations, pos) ==
  IF \E j \in pos..Len(stations) : ~Falsy(stations[j])
    THEN CHOOSE j \in pos..Len(stations) :
           ~Falsy(stations[j]) /\ \A i \in pos..(j - 1) : Falsy(stations[i])
    ELSE 0

\* A Thread of collect() before start(): the state of its station_process,
\* the session it opens and the workers that have sent a request through
\* that session, its position in its tuple and the uuids it has requested.
NewThread ==
  [state |-> "created", session |-> "none", users |-> {}, pos |-> 1, sent |-> <<>>]

\* v.get("onAirStatusLogEvents") and len(v["onAirStatusLogEvents"]) > 0
HasLogEvent(v) ==
  "onAirStatusLogEvents" \in DOMAIN v /\ Len(v["onAirStatusLogEvents"]) > 0

\* The five fields taken from the head of the playlist.
CurrentFields(log_event) ==
  [s_current_artist |-> Get(log_event, "artist"),
   s_current_assetType |-> Get(log_event, "assetType"),
   s_current_chainType |-> Get(log_event, "chainType"),
   s_current_status_code |-> Get(log_event, "statusCode"),
   s_current_title |-> Get(log_event, "title")]

\* The current item taken from the end of the playlist ([-1]) in place of
\* its head ([0]).
FieldsFromLastEvent(k, v, station) ==
  LET fields == [s_uuid |-> k,
                 s_name |-> station["name"],
                 s_callLetters |-> Get(station, "callLetters"),
                 s_role |-> Get(station, "role"),
                 i_internalId |-> Get(station, "internalId"),
                 as_groups |-> station["groups"],
                 s_mode |-> Get(v, "mode"),
                 s_status |-> Get(v, "status")]
  IN IF HasLogEvent(v)
       THEN CurrentFields(v["onAirStatusLogEvents"][Len(v["onAirStatusLogEvents"])]) @@ fields
       ELSE fields

\* The fields dict built for the pair (k, v) of collection.items().
Fields(k, v, station) ==
  LET fields == [s_uuid |-> k,
                 s_name |-> station["name"],
                 s_callLetters |-> Get(station, "callLetters"),
                 s_role |-> Get(station, "role"),
                 i_internalId |-> Get(station, "internalId"),
                 as_groups |-> station["groups"],
                 s_mode |-> Get(v, "mode"),
                 s_status |-> Get(v, "status")]
  IN IF HasLogEvent(v)
       THEN CurrentFields(v["onAirStatusLogEvents"][1]) @@ fields
       ELSE fields

\* The document stamped with the default host in place of self.host.
MakeDocumentDefaultHost(fields, h) == [fields |-> fields, host |-> DefaultHost, name |-> "zetta"]

MakeDocument(fields, h) == [fields |-> fields, host |-> h, name |-> "zetta"]

\* self.station_store[k]["name"] raises KeyError when k is not in the store
\* or the station has no "name".
LookupFails(k, store) == ~(k \in DOMAIN store.val) \/ ~("name" \in DOMAIN store.val[k])

\* A collect() that walks the directory instead of the result map, with an
\* empty status for a station the map does not hold.
RECURSIVE BuildForEveryStation(_, _, _, _, _)
BuildForEveryStation(coll, store, h, i, docs) ==
  IF i > Len(store.keys) THEN [error |-> "", documents |-> docs]
  ELSE LET k == store.keys[i]
           v == IF k \in DOMAIN coll.val THEN coll.val[k] ELSE <<>>
       IN IF ~("name" \in DOMAIN store.val[k]) THEN [error |-> "KeyError", documents |-> docs]
          ELSE BuildForEveryStation(coll, store, h, i + 1,
                 Append(docs, [fields |-> [s_uuid |-> k, s_name |-> store.val[k]["name"],
                                           s_mode |-> Get(v, "mode"), s_status |-> Get(v, "status")],
                               host |-> h, name |-> "zetta"]))

\* The for loop over collection.items() from pair i on: the documents built,
\* and the exception that ended the loop early ("" when none did).
RECURSIVE BuildDocuments(_, _, _, _, _)
BuildDocuments(coll, store, h, i, docs) ==
  IF i > Len(coll.keys) THEN [error |-> "", documents |-> docs]
  ELSE LET k == coll.keys[i]
       IN IF LookupFails(k, store) THEN [error |-> "KeyError", documents |-> docs]
          ELSE BuildDocuments(coll, store, h, i + 1,
                 Append(docs, MakeDocument(Fields(k, coll.val[k], store.val[k]), h)))

\* print(len(documents)); print(documents[0]); return documents.
\* documents[0] raises IndexError on an empty list.
Outcome(built) ==
  IF built.error # "" THEN [status |-> built.error, documents |-> <<>>]
  ELSE IF Len(built.documents) = 0 THEN [status |-> "IndexError", documents |-> <<>>]
  ELSE [status |-> "returned", documents |-> built.documents]

NoResult == [status |-> "none", documents |-> <<>>]

\* collect() with the result map kept on the collector from one call to the
\* next instead of made anew.
collect_begin_keeping ==
  /\ pc \in {"ready", "returned", "raised"}
  /\ cycle < MaxCycles
  /\ cycle' = cycle + 1
  /\ \E b \in Backends(station_store) : backend' = b
  /\ groups' = ZipGroups(station_store.keys)
  /\ collection' = collection
  /\ threads' = [w \in 1..Len(groups') |-> NewThread]
  /\ idx' = 1
  /\ documents' = <<>>
  /\ result' = NoResult
  /\ previous' = DictKeys(collection)
  /\ pc' = IF Len(groups') = 0 THEN "build" ELSE "start"
  /\ UNCHANGED <<selfVars, plugin, requests>>

\* collect() is called on the collector, for the first time or after an
\* earlier call has returned or raised: the groups, the empty collection and
\* one Thread per group are made (lines 329-346).
collect_begin ==
  /\ pc \in {"ready", "returned", "raised"}
  /\ cycle < MaxCycles
  /\ cycle' = cycle + 1
  /\ \E b \in Backends(station_store) : backend' = b
  /\ groups' = ZipGroups(station_store.keys)
  /\ collection' = EmptyDict
  /\ threads' = [w \in 1..Len(groups') |-> NewThread]
  /\ idx' = 1
  /\ documents' = <<>>
  /\ result' = NoResult
  /\ previous' = DictKeys(collection)
  /\ pc' = IF Len(groups') = 0 THEN "build" ELSE "start"
  /\ UNCHANGED <<selfVars, plugin, requests>>

\* x.start() for the next thread of the start loop.
collect_start ==
  /\ pc = "start"
  /\ threads' = [threads EXCEPT ![idx].state = "started"]
  /\ IF idx = Len(threads) THEN pc' = "join" /\ idx' = 1
                           ELSE pc' = pc /\ idx' = idx + 1
  /\ UNCHANGED <<selfVars, plugin, previous, requests, cycle,
                 backend, groups, collection, documents, result>>

\* A join on a thread that never ends.
NeverJoinable(thread) == FALSE

\* A join that does not wait (the join loop left out).
NoWait(thread) == TRUE

\* What y.join() waits for.
Joinable(thread) == thread.state = "finished"

\* y.join() for the next thread of the join loop returns.
collect_join ==
  /\ pc = "join"
  /\ Joinable(threads[idx])
  /\ IF idx = Len(threads) THEN pc' = "build" /\ idx' = 1
                           ELSE pc' = pc /\ idx' = idx + 1
  /\ UNCHANGED <<selfVars, plugin, previous, requests, cycle,
                 backend, groups, collection, threads, documents, result>>

\* station_process of thread w enters 'with requests.Session()'.
station_process_enter(w) ==
  /\ threads[w].state = "started"
  /\ threads' = [threads EXCEPT ![w].state = "running", ![w].session = "open"]
  /\ UNCHANGED <<pc, selfVars, plugin, previous, requests, cycle,
                 backend, groups, collection, idx, documents, result>>

\* collection.update(resp) in place of collection.update({uuid: resp}): the
\* status object's own key lands in the result map.
MergeStatusObject(coll, uuid, resp) ==
  IF StatusTruthy(resp) THEN DictUpdate(coll, "status", resp) ELSE coll

\* collection.update({uuid: resp}) when resp is true, nothing otherwise.
Merge(coll, uuid, resp) ==
  IF StatusTruthy(resp) THEN DictUpdate(coll, uuid, resp) ELSE coll

\* One session opened by the first worker and used by all.
SharedSession(w) == 1

\* The worker whose session worker w passes to collect_station_status: its
\* own http_session.
SessionOf(w) == w

\* station_process of thread w runs its loop up to and including the next
\* uuid it does not skip: one GET, and the merge of its result.
station_process_fetch(w) ==
  /\ threads[w].state = "running"
  /\ NextSlot(groups[w], threads[w].pos) # 0
  /\ LET j == NextSlot(groups[w], threads[w].pos)
         uuid == groups[w][j]
         resp == collect_station_status(StatusResponse(backend, uuid))
     IN /\ collection' = Merge(collection, uuid, resp)
        /\ threads' = [threads EXCEPT ![w].pos = j + 1, ![w].sent = Append(@, uuid),
                                      ![SessionOf(w)].users = @ \cup {w}]
        /\ requests' = [requests EXCEPT !.status = @ + 1]
  /\ UNCHANGED <<pc, selfVars, plugin, previous, cycle,
                 backend, groups, idx, documents, result>>

\* station_process of thread w skips what is left of its tuple, leaves the
\* 'with' block (the session is closed) and the thread ends.
station_process_exit(w) ==
  /\ threads[w].state = "running"
  /\ NextSlot(groups[w], threads[w].pos) = 0
  /\ threads' = [threads EXCEPT ![w].state = "finished", ![w].session = "closed",
                                ![w].pos = Len(groups[w]) + 1]
  /\ UNCHANGED <<pc, selfVars, plugin, previous, requests, cycle,
                 backend, groups, collection, idx, documents, result>>

\* self.station_store.pop(k) in place of self.station_store[k]: a station is
\* taken out of the directory when its Document is built.
collect_build_popping ==
  /\ pc = "build"
  /\ LET built == BuildDocuments(collection, station_store, host, 1, <<>>)
     IN /\ documents' = built.documents
        /\ result' = Outcome(built)
        /\ pc' = IF Outcome(built).status = "returned" THEN "returned" ELSE "raised"
  /\ station_store' =
       [keys |-> SelectSeq(station_store.keys, LAMBDA k : ~(k \in DictKeys(collection))),
        val  |-> [k \in (DOMAIN station_store.val) \ DictKeys(collection) |-> station_store.val[k]]]
  /\ UNCHANGED <<host, apikey, username, password, kwargs, organization_lists, directory,
                 stations_answer, organizations_answer, plugin, previous, requests, cycle,
                 backend, groups, collection, threads, idx>>

\* Lines 354-384 after the join loop: the documents are built from
\* collection.items(), printed, and returned, unless an exception ends collect().
collect_build ==
  /\ pc = "build"
  /\ LET built == BuildDocuments(collection, station_store, host, 1, <<>>)
     IN /\ documents' = built.documents
        /\ result' = Outcome(built)
        /\ pc' = IF Outcome(built).status = "returned" THEN "returned" ELSE "raised"
  /\ UNCHANGED <<selfVars, plugin, previous, requests, cycle,
                 backend, groups, collection, threads, idx>>

\* ------------------------------------------------------------ specification
PluginParams ==
  [apikey |-> "1234", username |-> "admin", password |-> "password", host |-> "zetta.example"]

\* A roster beyond the small ones is combined with one set of options and
\* one organization list; the small ones with every option and answer.
IsLarge(stationResp) ==
  "dataObject" \in DOMAIN stationResp /\ Len(stationResp["dataObject"]) > MaxSmallRoster

Constructions ==
  { c \in Kwargs \X StationListResponses \X OrganizationListResponses :
      IsLarge(c[2]) => /\ c[1] = PluginParams
                       /\ c[3] \in {[responseType |-> "success",
                                     dataObject |-> <<Org("60s", <<Uuid(2), Uuid(2)>>),
                                                      Org("Rock", <<Uuid(1), Uuid(2), Uuid(POLLNG_GROUPS + 1)>>)>>]} }

\* A Plugin object on which fetch() has not been called.
NoPlugin == [collector |-> FALSE, hosts |-> <<>>, made_with |-> <<>>, outcome |-> "none"]

Init ==
  /\ pc = "new"
  /\ host = DefaultHost
  /\ apikey = ""
  /\ username = ""
  /\ password = ""
  /\ station_store = EmptyDict
  /\ kwargs = <<>>
  /\ organization_lists = EmptyDict
  /\ directory = EmptyDict
  /\ stations_answer = <<>>
  /\ organizations_answer = <<>>
  /\ requests = NoRequests
  /\ cycle = 0
  /\ backend = [uniform |-> TRUE, k |-> 1]
  /\ groups = <<>>
  /\ collection = EmptyDict
  /\ threads = <<>>
  /\ idx = 1
  /\ documents = <<>>
  /\ result = NoResult
  /\ previous = {}
  /\ plugin = NoPlugin

\* The caller constructs the collector.
Construct ==
  /\ pc = "new"
  /\ \E c \in Constructions : Zetta_init(c[1], c[2], c[3])
  /\ UNCHANGED plugin

Next ==
  \/ Construct
  \/ collect_begin
  \/ collect_start
  \/ collect_join
  \/ \E w \in 1..Len(threads) : station_process_enter(w)
  \/ \E w \in 1..Len(threads) : station_process_fetch(w)
  \/ \E w \in 1..Len(threads) : station_process_exit(w)
  \/ collect_build

Spec == Init /\ [][Next]_vars

\* The most workers a cycle can have.
MaxWorkers == (MaxStations + POLLNG_GROUPS - 1) \div POLLNG_GROUPS

\* The constructions after which the progress of a poll is followed: the
\* options of the plugin, a station list of each small size and one that
\* needs a second worker, one organization list.
PollConstructions ==
  { <<PluginParams,
      [responseType |-> "success", dataObject |-> Roster(n)],
      [responseType |-> "success",
       dataObject |-> <<Org("60s", <<Uuid(2), Uuid(2)>>),
                        Org("Rock", <<Uuid(1), Uuid(2), Uuid(POLLNG_GROUPS + 1)>>)>>]>> :
      n \in (0..MaxSmallRoster) \cup {POLLNG_GROUPS + 1} }

ConstructForPoll ==
  /\ pc = "new"
  /\ \E c \in PollConstructions : Zetta_init(c[1], c[2], c[3])
  /\ UNCHANGED plugin

PollNext ==
  \/ ConstructForPoll
  \/ collect_begin
  \/ collect_start
  \/ collect_join
  \/ \E w \in 1..Len(threads) : station_process_enter(w)
  \/ \E w \in 1..Len(threads) : station_process_fetch(w)
  \/ \E w \in 1..Len(threads) : station_process_exit(w)
  \/ collect_build

\* The caller's thread and every started thread are scheduled again and
\* again, and every status request completes (the GET has a timeout of 5 s):
\* a step of collect() or of a station_process that stays possible is taken.
FairSpec ==
  /\ Init /\ [][PollNext]_vars
  /\ WF_vars(collect_start)
  /\ WF_vars(collect_join)
  /\ WF_vars(collect_build)
  /\ \A w \in 1..MaxWorkers :
       /\ WF_vars(w <= Len(threads) /\ station_process_enter(w))
       /\ WF_vars(w <= Len(threads) /\ station_process_fetch(w))
       /\ WF_vars(w <= Len(threads) /\ station_process_exit(w))

\* ---------------------------------------------------------- Plugin.fetch
\* The hosts a fetch() may be called with.
HostLists == {<<>>, <<"zetta-a">>, <<"zetta-a", "zetta-b">>}

\* A fetch() that finds no collector whatever the plugin holds.
NeverHasCollector(p) == FALSE

\* 'try: self.collector' does not raise.
HasCollector(p) == p.collector

\* Plugin.fetch(hosts) up to its call of collect(): with a collector on the
\* plugin nothing is made; without one, hosts[-1] raises IndexError on an
\* empty list and ends the call, and otherwise the collector is constructed
\* for the last host with the fixed options and kept on the plugin.
Plugin_fetch(hosts) ==
  /\ pc \in {"new", "returned", "raised"}
  /\ cycle < MaxCycles
  /\ IF HasCollector(plugin)
       THEN /\ pc' = "ready"
            /\ plugin' = [plugin EXCEPT !.hosts = hosts, !.outcome = "collect"]
            /\ UNCHANGED <<selfVars, requests, cycle>>
            /\ UNCHANGED collectVars
       ELSE IF hosts = <<>>
         THEN /\ plugin' = [plugin EXCEPT !.hosts = hosts, !.outcome = "IndexError"]
              /\ UNCHANGED <<pc, selfVars, requests, cycle>>
              /\ UNCHANGED collectVars
         ELSE /\ \E c \in PollConstructions :
                   Zetta_init([c[1] EXCEPT !.host = hosts[Len(hosts)]], c[2], c[3])
              /\ plugin' = [collector |-> TRUE, hosts |-> hosts, made_with |-> hosts,
                            outcome |-> "collect"]

\* documents = self.collector.collect(): the call of collect() that fetch() makes.
Plugin_collect ==
  /\ pc = "ready"
  /\ collect_begin

PluginNext ==
  \/ \E hosts \in HostLists : Plugin_fetch(hosts)
  \/ Plugin_collect
  \/ collect_start
  \/ collect_join
  \/ \E w \in 1..Len(threads) : station_process_enter(w)
  \/ \E w \in 1..Len(threads) : station_process_fetch(w)
  \/ \E w \in 1..Len(threads) : station_process_exit(w)
  \/ collect_build

\* One Plugin object, used through fetch() only.
PluginSpec == Init /\ [][PluginNext]_vars

\* ------------------------------------------------------------------ claims
\* A collect() call has ended, by return or by exception.
CycleEnded == pc \in {"returned", "raised"}

\* The status fetch of uuid in this cycle carried the success marker.
MarkerSuccess(uuid) ==
  LET r == StatusResponse(backend, uuid)
  IN "responseType" \in DOMAIN r /\ r["responseType"] = "success"

\* Number of Documents in docs whose identifier is id.
DocumentsFor(docs, id) ==
  Cardinality({i \in 1..Len(docs) : docs[i]["fields"]["s_uuid"] = id})

\* C1: what collect() hands to its caller holds no Document for an identifier
\* outside the cycle's status result map and none for a station whose fetch
\* failed; when collect() returns, it holds exactly one Document for each
\* identifier of the map.
C1_OneDocumentPerStatus ==
  CycleEnded =>
    /\ \A i \in 1..Len(result.documents) :
         result.documents[i]["fields"]["s_uuid"] \in DictKeys(collection)
    /\ \A id \in DictKeys(station_store) :
         ~MarkerSuccess(id) => DocumentsFor(result.documents, id) = 0
    /\ pc = "returned" =>
         /\ \A id \in DictKeys(collection) : DocumentsFor(result.documents, id) = 1
         /\ Len(result.documents) = Len(collection.keys)

\* C1 witness: directory {u1, u2}, the fetch of u1 succeeds, that of u2
\* fails, and collect() returns one Document, for u1.
C1_Witness ==
  /\ pc = "returned"
  /\ station_store.keys = <<Uuid(1), Uuid(2)>>
  /\ MarkerSuccess(Uuid(1)) /\ ~MarkerSuccess(Uuid(2))
  /\ Len(result.documents) = 1
  /\ result.documents[1]["fields"]["s_uuid"] = Uuid(1)

\* C2: after the poll, an identifier of a worker's tuple that is no padding
\* is in the result map if and only if its fetch carried the success marker.
C2_StoredIffSucceeded ==
  pc \in {"build", "returned", "raised"} =>
    \A w \in 1..Len(groups) : \A j \in 1..Len(groups[w]) :
      groups[w][j] # None =>
        (groups[w][j] \in DictKeys(collection) <=> MarkerSuccess(groups[w][j]))

\* C3: no collect() call ends with an exception.
C3_NoExceptionSurfaces == CycleEnded => result.status = "returned"

\* The identifiers of a tuple of groups, the padding dropped.
Batch(group) == SelectSeq(group, LAMBDA x : x # None)

\* The batches from number g on, one after the other.
RECURSIVE BatchesFrom(_, _)
BatchesFrom(gs, g) == IF g > Len(gs) THEN <<>> ELSE Batch(gs[g]) \o BatchesFrom(gs, g + 1)

Elements(seq) == {seq[i] : i \in 1..Len(seq)}

\* C4: once collect() has built its groups, the batches (padding dropped)
\* read one after the other are the directory's keys in iteration order, no
\* batch holds more than 25 identifiers, and no two batches share one.
C4_BatchesPartition ==
  cycle > 0 =>
    /\ BatchesFrom(groups, 1) = station_store.keys
    /\ \A g \in 1..Len(groups) : Len(Batch(groups[g])) <= 25
    /\ \A g \in 1..Len(groups) : \A h \in 1..Len(groups) :
         g # h => Elements(Batch(groups[g])) \cap Elements(Batch(groups[h])) = {}

\* C4 witness: a directory of more than 25 stations gives a full batch and a
\* padded one.
C4_Witness ==
  /\ cycle > 0
  /\ Len(groups) = 2
  /\ Len(Batch(groups[1])) = 25
  /\ Len(Batch(groups[2])) > 0
  /\ groups[2][Len(groups[2])] = None

\* C5: at every moment the keys of the status result map, and the
\* identifiers whose status was requested, are keys of the directory.
C5_StatusKeysInDirectory ==
  /\ DictKeys(collection) \subseteq DictKeys(station_store)
  /\ DOMAIN collection.val \subseteq DOMAIN station_store.val
  /\ \A w \in 1..Len(threads) : Elements(threads[w].sent) \subseteq DictKeys(station_store)

\* C5 witness: two workers are in the middle of their tuples, both have
\* written to the map and one fetch has failed.
C5_Witness ==
  /\ Len(threads) = 2
  /\ \A w \in 1..2 : threads[w].state = "running" /\ Len(threads[w].sent) > 0
  /\ \E w \in 1..2 : Elements(threads[w].sent) \cap DictKeys(collection) # {}
  /\ Elements(threads[2].sent) \cap DictKeys(collection) # {}
  /\ \E w \in 1..2 : ~(Elements(threads[w].sent) \subseteq DictKeys(collection))

CurrentKeys ==
  {"s_current_artist", "s_current_assetType", "s_current_chainType",
   "s_current_status_code", "s_current_title"}

\* The key of a playlist item a current-item field is taken from.
SourceKey(field) ==
  CASE field = "s_current_artist" -> "artist"
    [] field = "s_current_assetType" -> "assetType"
    [] field = "s_current_chainType" -> "chainType"
    [] field = "s_current_status_code" -> "statusCode"
    [] field = "s_current_title" -> "title"

\* The playlist of the status the backend gave for uuid in this cycle, empty
\* when the status has none.
Playlist(uuid) ==
  LET v == StatusResponse(backend, uuid)["dataObject"]
  IN IF "onAirStatusLogEvents" \in DOMAIN v THEN v["onAirStatusLogEvents"] ELSE <<>>

\* C6: in every Document collect() returns, the five current-item fields are
\* all absent when the station's playlist is empty or absent, and all present
\* when it is not, each with the value the head item has under its key (None
\* when the head item lacks the key).
C6_CurrentFields ==
  pc = "returned" =>
    \A i \in 1..Len(result.documents) :
      LET fields == result.documents[i]["fields"]
          playlist == Playlist(fields["s_uuid"])
      IN IF playlist = <<>>
           THEN DOMAIN fields \cap CurrentKeys = {}
           ELSE /\ CurrentKeys \subseteq DOMAIN fields
                /\ \A c \in CurrentKeys : fields[c] = Get(playlist[1], SourceKey(c))

\* C6 witness: collect() returns a Document of a station with a playlist of
\* two items and a Document of a station with an empty playlist.
C6_Witness ==
  /\ pc = "returned"
  /\ \E i \in 1..Len(result.documents) :
       Len(Playlist(result.documents[i]["fields"]["s_uuid"])) = 2
  /\ \E i \in 1..Len(result.documents) :
       Playlist(result.documents[i]["fields"]["s_uuid"]) = <<>>

\* A required credential is missing or empty among the options.
CredentialMissing(options) ==
  \E a \in {"apikey", "username", "password"} : ~(a \in DOMAIN options) \/ options[a] = ""

\* C7: once the constructor has been called, a missing or empty credential
\* means it exited: no directory, no request of any kind, no collect() call,
\* ever; with the three credentials it went on to fetch the station list.
C7_MissingCredentialAborts ==
  pc # "new" =>
    IF CredentialMissing(kwargs)
      THEN /\ pc = "exited"
           /\ station_store = EmptyDict
           /\ requests = NoRequests
           /\ cycle = 0
      ELSE /\ pc # "exited"
           /\ requests.stations = 1
           /\ requests.organizations = 1

\* C7 witness: the constructor was called with an API key and a password
\* and an empty username, and exited.
C7_Witness ==
  /\ pc = "exited"
  /\ "apikey" \in DOMAIN kwargs /\ kwargs["apikey"] # ""
  /\ "password" \in DOMAIN kwargs /\ kwargs["password"] # ""
  /\ "username" \in DOMAIN kwargs /\ kwargs["username"] = ""

\* Document building has begun or collect() has ended.
BuilderStarted == pc \in {"build", "returned", "raised"}

\* C8: whenever Document building has begun or collect() has ended, every
\* thread of the cycle has finished, and from then on no step of the cycle
\* changes the status result map.
C8_Barrier ==
  /\ [](BuilderStarted => \A w \in 1..Len(threads) : threads[w].state = "finished")
  /\ [][BuilderStarted /\ cycle' = cycle => collection' = collection]_vars

\* C8 witness: two threads ran, both wrote to the map, and building begins.
C8_Witness ==
  /\ pc = "build"
  /\ Len(threads) = 2
  /\ \A w \in 1..2 : Elements(threads[w].sent) \cap DictKeys(collection) # {}

\* Number of times x occurs in seq.
Occurrences(seq, x) == Cardinality({i \in 1..Len(seq) : seq[i] = x})

\* C9: once the collector is constructed, for every station of the
\* directory and every name of the organization map, the name is in the
\* station's groups once if the organization lists the station's identifier
\* and not at all otherwise, and the groups hold nothing else.
C9_GroupsFollowMembership ==
  pc \notin {"new", "exited"} =>
    \A k \in DictKeys(station_store) :
      /\ \A name \in DictKeys(organization_lists) :
           Occurrences(station_store.val[k]["groups"], name) =
             IF k \in Elements(organization_lists.val[name]) THEN 1 ELSE 0
      /\ Elements(station_store.val[k]["groups"]) \subseteq DictKeys(organization_lists)

\* C9 witness: stations u1 and u2, organization "60s" = [u2]: u1 has no
\* group and u2 has the group "60s".
C9_Witness ==
  /\ pc = "ready"
  /\ station_store.keys = <<Uuid(1), Uuid(2)>>
  /\ organization_lists.keys = <<"60s">>
  /\ organization_lists.val["60s"] = <<Uuid(2)>>
  /\ station_store.val[Uuid(1)]["groups"] = <<>>
  /\ station_store.val[Uuid(2)]["groups"] = <<"60s">>

\* The host the options configure: the "host" option when it is given and
\* non-empty, 127.0.0.1 otherwise.
ConfiguredHost ==
  IF "host" \in DOMAIN kwargs /\ kwargs["host"] # "" THEN kwargs["host"] ELSE "127.0.0.1"

\* C10: every Document collect() returns carries the identifier, name,
\* call-letters, role, internal id and groups of the station the directory
\* held for that identifier when construction ended (None for call-letters or
\* role the record lacks), the configured host, and the name "zetta".
C10_StaticFields ==
  pc = "returned" =>
    \A i \in 1..Len(result.documents) :
      LET doc == result.documents[i]
          fields == doc["fields"]
      IN /\ fields["s_uuid"] \in DOMAIN directory.val
         /\ LET station == directory.val[fields["s_uuid"]]
            IN /\ fields["s_uuid"] = station["uuid"]
               /\ fields["s_name"] = station["name"]
               /\ fields["s_callLetters"] = Get(station, "callLetters")
               /\ fields["s_role"] = Get(station, "role")
               /\ fields["i_internalId"] = station["internalId"]
               /\ fields["as_groups"] = station["groups"]
         /\ doc["host"] = ConfiguredHost
         /\ doc["name"] = "zetta"

\* C10 witness: collect() returns a Document of a station that is in two
\* groups, for a collector configured with a host of its own.
C10_Witness ==
  /\ pc = "returned"
  /\ host # DefaultHost
  /\ \E i \in 1..Len(result.documents) :
       /\ Len(result.documents[i]["fields"]["as_groups"]) = 2
       /\ result.documents[i]["host"] = host

\* The station-list fetch failed: the GET or the JSON parse raised, the
\* success marker or the data is missing, or a station record has no "uuid".
StationListFailed ==
  \/ "exception" \in DOMAIN stations_answer
  \/ BadResponseType(stations_answer)
  \/ ~("dataObject" \in DOMAIN stations_answer)
  \/ \E i \in 1..Len(stations_answer["dataObject"]) :
       ~("uuid" \in DOMAIN stations_answer["dataObject"][i])

\* C11: a constructor that was given its credentials completes, and when the
\* station-list fetch failed in any way the directory it leaves is empty.
C11_FailedRosterGivesEmptyDirectory ==
  (pc # "new" /\ ~CredentialMissing(kwargs)) =>
    /\ pc # "exited"
    /\ StationListFailed => directory = EmptyDict

\* The identifiers worker w has requested so far in this cycle.
Requested(w) == Elements(threads[w].sent)

\* C12: at every moment of a poll cycle no worker has requested an
\* identifier twice, no two workers have requested (and so written the key
\* of) the same identifier, a worker requests from its own tuple only, and
\* every key of the result map was requested; when the poll is over the
\* identifiers requested are those of the directory, each once.
C12_EachStationFetchedOnce ==
  /\ \A w \in 1..Len(threads) :
       /\ Cardinality(Requested(w)) = Len(threads[w].sent)
       /\ Requested(w) \subseteq Elements(groups[w])
       /\ \A v \in 1..Len(threads) : v # w => Requested(v) \cap Requested(w) = {}
  /\ DictKeys(collection) \subseteq UNION {Requested(w) : w \in 1..Len(threads)}
  /\ (cycle > 0 /\ BuilderStarted) =>
       /\ UNION {Requested(w) : w \in 1..Len(threads)} = DictKeys(station_store)
       /\ requests.status = cycle * Len(station_store.keys)

\* C12 witness: the second poll of a directory of two tuples is over, every
\* station was requested once in each cycle, and some fetches failed.
C12_Witness ==
  /\ pc = "build"
  /\ cycle = 2
  /\ Len(threads) = 2
  /\ requests.status = 2 * Len(station_store.keys)
  /\ Len(collection.keys) > 0
  /\ Len(collection.keys) < Len(station_store.keys)

\* The least number of batches of at most POLLNG_GROUPS that hold n identifiers.
BatchCount(n) == CHOOSE c \in 0..n : c * POLLNG_GROUPS >= n /\ (c = 0 \/ (c - 1) * POLLNG_GROUPS < n)

\* C13: in every cycle collect() makes one worker per batch, that is
\* ceil(N/25) workers for a directory of N identifiers, and the padding of a
\* tuple is never requested and never a key of the result map.
C13_OneWorkerPerBatch ==
  cycle > 0 =>
    /\ Len(threads) = Len(groups)
    /\ Len(threads) = BatchCount(Len(station_store.keys))
    /\ \A w \in 1..Len(threads) : ~(None \in Elements(threads[w].sent))
    /\ ~(None \in DictKeys(collection))
    /\ ~(None \in DOMAIN collection.val)

\* C13 witness: a directory of more than 25 stations has two workers, and
\* the second has finished a tuple that ends in padding having requested
\* just the identifiers of its batch.
C13_Witness ==
  /\ Len(station_store.keys) > POLLNG_GROUPS
  /\ Len(threads) = 2
  /\ threads[2].state = "finished"
  /\ groups[2][POLLNG_GROUPS] = None
  /\ threads[2].sent = Batch(groups[2])
  /\ Len(threads[2].sent) < POLLNG_GROUPS

\* C14: under fair scheduling every started worker finishes, having requested
\* every identifier of its batch whatever the fetches gave, and every poll
\* that has begun passes the join and leaves the polling phase.
C14_PollTerminates ==
  /\ \A w \in 1..MaxWorkers :
       (w <= Len(threads) /\ threads[w].state = "started")
         ~> (w <= Len(threads) /\ threads[w].state = "finished")
  /\ [](\A w \in 1..Len(threads) :
          threads[w].state = "finished" => threads[w].sent = Batch(groups[w]))
  /\ (pc \in {"start", "join"}) ~> BuilderStarted

\* C14 witness: the join has been passed in a cycle of two workers; the
\* first worker had a failed fetch and stored a later one, and the second
\* worker stored a fetch of its own.
C14_Witness ==
  /\ pc = "build"
  /\ Len(threads) = 2
  /\ \E i \in 1..Len(threads[1].sent) : \E j \in (i + 1)..Len(threads[1].sent) :
       /\ ~(threads[1].sent[i] \in DictKeys(collection))
       /\ threads[1].sent[j] \in DictKeys(collection)
  /\ \E i \in 1..Len(threads[2].sent) : threads[2].sent[i] \in DictKeys(collection)

\* C15: once the collector is constructed, through any number of collect()
\* calls and at every step of them, the directory is what construction left
\* (the same keys in the same order, the same attributes and groups for each
\* station), and the station list and the organization list have been
\* requested once each, by the constructor.
C15_DirectoryUnchangedByPolling ==
  pc \notin {"new", "exited"} =>
    /\ station_store = directory
    /\ requests.stations = 1
    /\ requests.organizations = 1

\* C15 witness: the second collect() has returned Documents for a directory
\* of two stations of which one is in a group; status requests were made,
\* and the two lists were requested once.
C15_Witness ==
  /\ pc = "returned"
  /\ cycle = 2
  /\ Len(directory.keys) = 2
  /\ \E k \in DictKeys(directory) : directory.val[k]["groups"] # <<>>
  /\ requests.status = 4
  /\ requests.stations = 1
  /\ station_store = directory

\* What the status fetch of uuid gives station_process in this cycle.
FetchOutcome(uuid) == collect_station_status(StatusResponse(backend, uuid))

\* C16: in every cycle the result map holds only identifiers requested in
\* that cycle; when collect() returns, its Documents are those of the
\* directory's stations whose fetch of this cycle gave a status, each built
\* from the directory's record and this cycle's status alone; and a station
\* that was in the result map of the cycle before and whose fetch fails in
\* this one gets no Document.
C16_RebuiltEachCycle ==
  /\ DictKeys(collection) \subseteq UNION {Requested(w) : w \in 1..Len(threads)}
  /\ pc = "returned" =>
       /\ {result.documents[i]["fields"]["s_uuid"] : i \in 1..Len(result.documents)}
            = {id \in DictKeys(directory) : StatusTruthy(FetchOutcome(id))}
       /\ \A i \in 1..Len(result.documents) :
            LET id == result.documents[i]["fields"]["s_uuid"]
            IN result.documents[i] =
                 MakeDocument(Fields(id, FetchOutcome(id), directory.val[id]), host)
  /\ CycleEnded =>
       \A id \in previous : ~MarkerSuccess(id) => DocumentsFor(result.documents, id) = 0

\* C16 witness: the second collect() returns a Document for one station and
\* none for another that was in the result map of the first cycle and whose
\* fetch has now failed.
C16_Witness ==
  /\ pc = "returned"
  /\ cycle = 2
  /\ Len(result.documents) = 1
  /\ \E id \in previous :
       /\ ~MarkerSuccess(id)
       /\ id \in DictKeys(directory)
       /\ DocumentsFor(result.documents, id) = 0

\* C17: on one Plugin object the station list and the organization list are
\* requested at most once, by the one construction; the plugin has its
\* collector exactly when that construction has happened, no collect() runs
\* without it, and its host is the last host of the fetch() that made it;
\* once the plugin has its collector, no step of any later fetch() replaces
\* it, changes its host or its directory, or requests the lists again.
C17_CollectorMadeOnce ==
  /\ [](/\ requests.stations <= 1
        /\ requests.organizations <= 1
        /\ plugin.collector <=> requests.stations = 1
        /\ ~plugin.collector => (pc = "new" /\ cycle = 0)
        /\ plugin.collector =>
             /\ plugin.made_with # <<>>
             /\ host = plugin.made_with[Len(plugin.made_with)])
  /\ [][plugin.collector =>
          /\ plugin'.collector
          /\ plugin'.made_with = plugin.made_with
          /\ host' = host
          /\ station_store' = station_store
          /\ requests'.stations = requests.stations
          /\ requests'.organizations = requests.organizations]_vars

\* C17 witness: the first fetch() was called with hosts ending in zetta-b
\* and made the collector; the second was called with hosts ending in
\* zetta-a, ran a poll cycle on the same collector, and returned Documents
\* stamped zetta-b.
C17_Witness ==
  /\ pc = "returned"
  /\ cycle = 2
  /\ plugin.collector
  /\ plugin.made_with = <<"zetta-a", "zetta-b">>
  /\ plugin.hosts = <<"zetta-a">>
  /\ host = "zetta-b"
  /\ requests.stations = 1
  /\ \A i \in 1..Len(result.documents) : result.documents[i]["host"] = "zetta-b"

\* The organization record carries a non-empty station-identifier collection.
HasStations(org) ==
  "stationUUIDCollection" \in DOMAIN org /\ org["stationUUIDCollection"] # <<>>

\* The organization fetch failed: the GET or the JSON parse raised, the
\* success marker or the data is missing, or an organization that carries
\* stations has no "name".
OrganizationListFailed ==
  \/ "exception" \in DOMAIN organizations_answer
  \/ BadResponseType(organizations_answer)
  \/ ~("dataObject" \in DOMAIN organizations_answer)
  \/ \E i \in 1..Len(organizations_answer["dataObject"]) :
       /\ HasStations(organizations_answer["dataObject"][i])
       /\ ~("name" \in DOMAIN organizations_answer["dataObject"][i])

\* C18: once the collector is constructed, if the organization fetch failed
\* the organization map is empty and every station of the directory has an
\* empty group sequence; if it did not, the names of the map are those of
\* the organizations that carry a non-empty station-identifier collection,
\* each with the collection of the (last) organization of that name.
C18_OrganizationMap ==
  pc \notin {"new", "exited"} =>
    IF OrganizationListFailed
      THEN /\ organization_lists = EmptyDict
           /\ directory.keys = collect_stations(stations_answer).keys
           /\ \A k \in DictKeys(directory) : directory.val[k]["groups"] = <<>>
      ELSE LET data == organizations_answer["dataObject"]
               kept == {i \in 1..Len(data) : HasStations(data[i])}
           IN /\ DictKeys(organization_lists) = {data[i]["name"] : i \in kept}
              /\ \A i \in kept :
                   (\A j \in kept : j > i => data[j]["name"] # data[i]["name"])
                     => organization_lists.val[data[i]["name"]] = data[i]["stationUUIDCollection"]

\* C19: at every moment the session a worker has opened has been used by no
\* other worker, and every request of a worker went through its own session;
\* a worker's session is open exactly while the worker runs and is closed
\* whenever the worker has finished; and once the poll of a cycle is over, and
\* so after collect() has returned or raised, no session of the cycle is open.
C19_SessionsPrivateAndClosed ==
  /\ \A w \in 1..Len(threads) :
       /\ threads[w].users \subseteq {w}
       /\ threads[w].sent # <<>> => threads[w].users = {w}
       /\ threads[w].session = "open" <=> threads[w].state = "running"
       /\ threads[w].state = "finished" => threads[w].session = "closed"
       /\ threads[w].state \in {"created", "started"} => threads[w].session = "none"
  /\ BuilderStarted => \A w \in 1..Len(threads) : threads[w].session = "closed"

\* C19 witness: collect() has ended with an exception after a poll of two
\* workers in which every fetch failed, and both sessions, each used by its
\* own worker only, are closed.
C19_Witness ==
  /\ pc = "raised"
  /\ Len(threads) = 2
  /\ collection = EmptyDict
  /\ \A w \in 1..2 :
       /\ threads[w].session = "closed"
       /\ threads[w].users = {w}
       /\ threads[w].sent # <<>>

====
